---- MODULE Spec2Model ----
(***************************************************************************)
(* A model of flake8-importlinter's ImportLinterPlugin                     *)
(* (src/flake8_importlinter/plugin.py).                                    *)
(*                                                                         *)
(* Python strings are sequences of one-character strings, so that          *)
(* startswith, endswith, the regular expressions and the path functions    *)
(* are computed on characters.  The literal parts of an f-string are kept  *)
(* as one element each; the formatted values are spliced in as characters. *)
(* An attribute that is absent or None is None == <<>>, a present value x  *)
(* is Some(x) == <<x>>.                                                    *)
(***************************************************************************)
EXTENDS Naturals, Sequences, FiniteSets

VARIABLES
    IMPORT_LINTER_AVAILABLE,  \* module-level flag set by the guarded import
    _configured,              \* ImportLinterPlugin._configured
    _configuration_error,     \* ImportLinterPlugin._configuration_error
    configure_calls,          \* history: invocations of importlinter_configure
    configure_returns,        \* history: invocations that returned without raising
    sys_path,                 \* sys.path
    plugins,                  \* the ImportLinterPlugin instances, in construction order
    report,                   \* the Report create_report computes for the project
    arg_module,               \* module_name argument of a direct _extract_violations call
    ret                       \* what a direct call of a method returned

vars == <<IMPORT_LINTER_AVAILABLE, _configured, _configuration_error,
          configure_calls, configure_returns, sys_path, plugins, report,
          arg_module, ret>>

(***************************************************************************)
(* Bounds of the model.                                                    *)
(***************************************************************************)
MaxLine == 2
MaxContracts == 2
MaxViolations == 2

None == <<>>
Some(x) == <<x>>
Val(o) == o[1]

(***************************************************************************)
(* Strings.                                                                *)
(***************************************************************************)
StartsWith(s, p) == Len(p) <= Len(s) /\ SubSeq(s, 1, Len(p)) = p

EndsWith(s, p) == Len(p) <= Len(s) /\ SubSeq(s, Len(s) - Len(p) + 1, Len(s)) = p

Digits == <<"0", "1", "2", "3", "4", "5", "6", "7", "8", "9">>

IsDigit(c) == \E d \in 1..10 : Digits[d] = c

DigitVal(c) == (CHOOSE d \in 1..10 : Digits[d] = c) - 1

Letters == {"a", "b", "c", "d", "e", "f", "g", "h", "i", "j", "k", "l", "m",
            "n", "o", "p", "q", "r", "s", "t", "u", "v", "w", "x", "y", "z",
            "N", "V"}

\* [\w\.] of the regular expression on line 231
IsWordOrDot(c) == c \in Letters \/ IsDigit(c) \/ c = "_" \/ c = "."

RECURSIVE ParseInt(_)
\* int(digits)
ParseInt(ds) == IF ds = <<>> THEN 0 ELSE 10 * ParseInt(SubSeq(ds, 1, Len(ds) - 1)) + DigitVal(ds[Len(ds)])

RECURSIVE IntToStr(_)
\* str(n) for n >= 0
IntToStr(n) == IF n < 10 THEN <<Digits[n + 1]>> ELSE IntToStr(n \div 10) \o <<Digits[(n % 10) + 1]>>

\* str(x) of an Optional[int], as an f-string formats it
PyStr(o) == IF o = None THEN <<"N", "o", "n", "e">> ELSE IntToStr(Val(o))

RECURSIVE DigitRun(_, _)
\* the length of the longest run of digits that starts at s[i]: (\d+)
DigitRun(s, i) == IF i <= Len(s) /\ IsDigit(s[i]) THEN 1 + DigitRun(s, i + 1) ELSE 0

RECURSIVE WordRun(_, _)
\* the length of the longest run of [\w\.] that starts at s[i]: ([\w\.]+)
WordRun(s, i) == IF i <= Len(s) /\ IsWordOrDot(s[i]) THEN 1 + WordRun(s, i + 1) ELSE 0

\* The least element of a non-empty set of positions
Leftmost(at) == CHOOSE j \in at : \A k \in at : j <= k

\* ")" follows the k >= 1 digits that start at s[i]
ClosedAfter(s, i, k) == k >= 1 /\ i + k <= Len(s) /\ s[i + k] = ")"

\* r"\(l\.(\d+)\)" matches at position i
LineRegexAt(s, i) ==
    /\ i + 4 <= Len(s)
    /\ s[i] = "(" /\ s[i + 1] = "l" /\ s[i + 2] = "."
    /\ ClosedAfter(s, i + 3, DigitRun(s, i + 3))

\* Group 1 of the match of r"\(l\.(\d+)\)" at the leftmost of the positions at
LineGroup(s, at) == IF at = {} THEN None ELSE Some(SubSeq(s, Leftmost(at) + 3, Leftmost(at) + 2 + DigitRun(s, Leftmost(at) + 3)))

\* re.search(r"\(l\.(\d+)\)", s): group 1 of the leftmost match, or None
SearchLine(s) == LineGroup(s, {i \in 1..Len(s) : LineRegexAt(s, i)})

\* r"-> ([\w\.]+)" matches at position i
ImportedRegexAt(s, i) ==
    /\ i + 3 <= Len(s)
    /\ s[i] = "-" /\ s[i + 1] = ">" /\ s[i + 2] = " "
    /\ WordRun(s, i + 3) >= 1

\* Group 1 of the match of r"-> ([\w\.]+)" at the leftmost of the positions at
ImportedGroup(s, at) == IF at = {} THEN None ELSE Some(SubSeq(s, Leftmost(at) + 3, Leftmost(at) + 2 + WordRun(s, Leftmost(at) + 3)))

\* re.search(r"-> ([\w\.]+)", s): group 1 of the leftmost match, or None
SearchImported(s) == ImportedGroup(s, {i \in 1..Len(s) : ImportedRegexAt(s, i)})

\* sub occurs in s
Contains(s, sub) == \E i \in 1..(Len(s) + 1) : i + Len(sub) - 1 <= Len(s) /\ SubSeq(s, i, i + Len(sub) - 1) = sub

(***************************************************************************)
(* The report model the plugin reads.  A Report is the sequence of         *)
(* <<contract, check>> pairs get_contracts_and_checks() returns; a         *)
(* contract has a name; a check has kept and violations, the list          *)
(* check.metadata.get("violations", []) yields.  A violation object has    *)
(* the attributes the plugin probes with hasattr and a string form.        *)
(***************************************************************************)
Violation(importer, imported, higher_layer, lower_layer, line_number, line_numbers, str) ==
    [importer |-> importer, imported |-> imported,
     higher_layer |-> higher_layer, lower_layer |-> lower_layer,
     line_number |-> line_number, line_numbers |-> line_numbers, str |-> str]

Arrow == <<" ", "-", ">", " ">>

\* "<importer> -> <imported>"
ArrowStr(importer, imported) == importer \o Arrow \o imported

\* MockViolation.__str__: "<importer> -> <imported> (l.<line_number>)"
MockStr(importer, imported, line_number) == ArrowStr(importer, imported) \o <<" ", "(", "l", ".">> \o PyStr(line_number) \o <<")">>

\* object.__repr__-like string form of an object that defines no __str__
OpaqueStr == <<"<", "V", ">">>

\* MockViolation.__init__ and __str__
MockViolation(importer, imported, line_number) ==
    Violation(Some(importer), Some(imported), None, None, line_number,
              IF line_number # None THEN Some(<<line_number>>) ELSE None,
              MockStr(importer, imported, line_number))

MockContract(name) == [name |-> name]

MockContractCheck(kept, violations) == [kept |-> kept, violations |-> violations]

\* The result of a call: a returned value, or a raised exception with its str().
Return(v) == [raised |-> FALSE, val |-> v, exc |-> <<>>]
Raise(msg) == [raised |-> TRUE, val |-> <<>>, exc |-> msg]

AttributeErrorImported == <<"object has no attribute 'imported'">>

(***************************************************************************)
(* ImportLinterPlugin._get_line_number_from_violation                      *)
(***************************************************************************)
\* Lines 265-271: the line of the match of the regular expression, else 1
LineOfMatch(line_match) == IF line_match # None THEN ParseInt(Val(line_match)) ELSE 1

_get_line_number_from_violation(violation) ==
    IF violation.line_number # None
    THEN Val(violation.line_number)
    ELSE IF /\ violation.line_numbers # None
            /\ Val(violation.line_numbers) # <<>>
            /\ Val(violation.line_numbers)[1] # None
    THEN Val(Val(violation.line_numbers)[1])
    ELSE LineOfMatch(SearchLine(violation.str))

(***************************************************************************)
(* ImportLinterPlugin._extract_violations                                  *)
(***************************************************************************)
ForbiddenMessage(imported) == <<"Forbidden import of ">> \o imported

LayersMessage(higher_module, lower_layer) ==
    <<"Illegal import from higher layer ">> \o higher_module \o <<" to lower layer ">> \o lower_layer

\* What the body of the loop does for one violation: the pairs it appends to
\* module_violations, violation_found, or the exception it raises.
Appended(pairs) == [raised |-> FALSE, exc |-> <<>>, pairs |-> pairs, found |-> pairs # <<>>]
Raised(exc) == [raised |-> TRUE, exc |-> exc, pairs |-> <<>>, found |-> FALSE]

\* Lines 206-210, with line_num the line of the violation
ImporterBranch(violation, line_num) ==
    IF line_num = 0 THEN Appended(<<>>)
    ELSE IF violation.imported = None THEN Raised(AttributeErrorImported)
    ELSE Appended(<< <<line_num, ForbiddenMessage(Val(violation.imported))>> >>)

\* Lines 215-224, with line_num the line of the violation
LayersBranch(violation, module_name, line_num) ==
    IF line_num = 0 THEN Appended(<<>>)
    ELSE Appended(<< <<line_num, LayersMessage(module_name, Val(violation.lower_layer))>> >>)

\* The if / elif of lines 204-224 for one violation
AttributeBranch(violation, module_name) ==
    IF violation.importer = Some(module_name)
    THEN ImporterBranch(violation, _get_line_number_from_violation(violation))
    ELSE IF violation.higher_layer # None /\ violation.lower_layer # None
    THEN IF StartsWith(module_name, Val(violation.higher_layer))
         THEN LayersBranch(violation, module_name, _get_line_number_from_violation(violation))
         ELSE Appended(<<>>)
    ELSE Appended(<<>>)

\* Lines 230-234: imported is the module of imported_match, or "unknown module"
ImportedOfMatch(imported_match) == IF imported_match # None THEN Val(imported_match) ELSE <<"unknown module">>

\* Lines 228-234, with the matches of the two regular expressions
StringPairs(line_match, imported_match) ==
    IF line_match # None
    THEN << <<ParseInt(Val(line_match)), ForbiddenMessage(ImportedOfMatch(imported_match))>> >>
    ELSE <<>>

\* The fallback of lines 226-234 for one violation: the pairs appended
StringBranch(violation, module_name) ==
    IF StartsWith(violation.str, module_name \o <<" ", "-", ">">>)
    THEN StringPairs(SearchLine(violation.str), SearchImported(violation.str))
    ELSE <<>>

\* A mutant of Fallback: violation_found is never set, so the fallback also
\* runs after the attribute branch has appended its pair.
FallbackFoundUnset(a, violation, module_name) ==
    IF a.raised THEN a ELSE [a EXCEPT !.pairs = a.pairs \o StringBranch(violation, module_name)]

\* Line 227: the fallback runs if not violation_found; a is what the
\* attribute branch did
Fallback(a, violation, module_name) ==
    IF a.raised \/ a.found THEN a ELSE [a EXCEPT !.pairs = StringBranch(violation, module_name)]

\* The body of the loop over all_violations (lines 201-234) for one violation.
ViolationPairs(violation, module_name) == Fallback(AttributeBranch(violation, module_name), violation, module_name)

\* module_violations after the body ran for the first violation (head) and
\* then for the others (rest)
AppendPairs(head, rest) ==
    IF head.raised THEN Raise(head.exc)
    ELSE IF rest.raised THEN rest
    ELSE Return(head.pairs \o rest.val)

RECURSIVE ModuleViolations(_, _)
\* The loop over all_violations: module_violations, or the exception raised.
ModuleViolations(all_violations, module_name) ==
    IF all_violations = <<>> THEN Return(<<>>)
    ELSE AppendPairs(ViolationPairs(Head(all_violations), module_name),
                     ModuleViolations(Tail(all_violations), module_name))

\* A mutant of Skipped: kept contracts are not skipped.
SkippedNever(check) == FALSE

\* if check.kept: continue (lines 193-194)
Skipped(check) == check.kept

\* Lines 236-237 for the first contract, before what the later ones (rest) add
AppendEntry(contract, module_violations, rest) ==
    IF module_violations.raised THEN module_violations
    ELSE IF rest.raised THEN rest
    ELSE IF module_violations.val # <<>>
    THEN Return(<< <<contract.name, module_violations.val>> >> \o rest.val)
    ELSE rest

\* Lines 193-234 for one check: its module_violations
CheckViolations(check, module_name) ==
    IF Skipped(check) THEN Return(<<>>) ELSE ModuleViolations(check.violations, module_name)

RECURSIVE _extract_violations(_, _)
\* The loop over report.get_contracts_and_checks() (lines 189-239).
_extract_violations(rep, module_name) ==
    IF rep = <<>> THEN Return(<<>>)
    ELSE AppendEntry(Head(rep)[1], CheckViolations(Head(rep)[2], module_name),
                     _extract_violations(Tail(rep), module_name))

(***************************************************************************)
(* The inputs the model draws: module names, violation objects, reports.   *)
(* Line numbers are those of source lines, so they start at 1.             *)
(***************************************************************************)
ModA == <<"a">>
ModB == <<"b">>
ModAdotB == <<"a", ".", "b">>
ModAB == <<"a", "b">>
ModCdotD == <<"c", ".", "d">>

\* "a.b" is a descendant of "a"; "ab" only shares its first character.
ModuleNames == {ModA, ModB, ModAdotB, ModAB}
Importers == {ModA, ModB}
Imported == {ModCdotD}

Lines == 1..MaxLine
OptLines == {None} \cup {Some(n) : n \in Lines}

\* What MockViolation builds (tests/fixtures/mock_importlinter.py).
ForbiddenShapes == {MockViolation(i, x, ln) : i \in Importers, x \in Imported, ln \in OptLines}

\* An importer/imported object whose line comes from line_numbers, or from
\* nowhere, and whose string form carries no "(l.N)".
ProvenanceShapes ==
    {Violation(Some(i), Some(x), None, None, None, lns, ArrowStr(i, x)) :
        i \in Importers, x \in Imported,
        lns \in {Some(<<>>), Some(<<None>>), Some(<<Some(MaxLine)>>)}}

\* An importer/imported object without line attributes whose string form carries the line.
StrLineShapes ==
    {Violation(Some(i), Some(x), None, None, None, None, MockStr(i, x, Some(MaxLine))) :
        i \in Importers, x \in Imported}

\* A layers violation: the lower layer "b" imports the higher layer "a".
LayerShapes ==
    {Violation(None, None, Some(ModA), Some(ModB), ln, None, str) :
        ln \in OptLines, str \in {OpaqueStr, MockStr(ModB, ModA, Some(1))}}

\* An object with none of the probed attributes: only its string form tells.
StringShapes ==
    {Violation(None, None, None, None, None, None, str) :
        str \in {MockStr(i, x, ln) : i \in Importers, x \in Imported, ln \in OptLines}
                \cup {ArrowStr(i, x) : i \in Importers, x \in Imported}}

Violations == ForbiddenShapes \cup ProvenanceShapes \cup StrLineShapes \cup LayerShapes \cup StringShapes

\* The sequences over S of length at most n
SeqsUpTo(S, n) == UNION {[1..k -> S] : k \in 0..n}

\* The checks, kept or broken, with m violations over V
ChecksOver(V, m) == {MockContractCheck(kept, vs) : kept \in BOOLEAN, vs \in [1..m -> V]}

RECURSIVE CheckLists(_, _, _)
\* The lists of k checks over V with at most n violations in all
CheckLists(V, k, n) ==
    IF k = 0 THEN {<<>>}
    ELSE UNION {{<<c>> \o r : c \in ChecksOver(V, m), r \in CheckLists(V, k - 1, n - m)} : m \in 0..n}

ContractName(i) == <<"K">> \o IntToStr(i)

\* MockReport: the contracts are named by their position in the configuration
ReportOf(checks) == [i \in 1..Len(checks) |-> <<MockContract(ContractName(i)), checks[i]>>]

\* The reports over V: at most MaxContracts contracts, at most MaxViolations violations
ReportsOver(V) == {ReportOf(cs) : cs \in UNION {CheckLists(V, k, MaxViolations) : k \in 0..MaxContracts}}

\* The shapes that are combined into reports of several violations: two
\* forbidden imports by "a", one by "b", a layers violation, and two objects
\* that only have a string form, without and with "(l.N)".
CoreViolations ==
    {MockViolation(ModA, ModCdotD, Some(1)),
     MockViolation(ModA, ModCdotD, Some(MaxLine)),
     MockViolation(ModB, ModCdotD, Some(1)),
     Violation(None, None, Some(ModA), Some(ModB), Some(1), None, OpaqueStr),
     Violation(None, None, None, None, None, None, ArrowStr(ModA, ModCdotD)),
     Violation(None, None, None, None, None, None, MockStr(ModA, ModCdotD, Some(MaxLine)))}

\* The reports of one contract with one violation, of any shape
SingleReports == {ReportOf(<<MockContractCheck(kept, <<v>>)>>) : kept \in BOOLEAN, v \in Violations}

(***************************************************************************)
(* State common to the specifications.                                     *)
(***************************************************************************)
NoRet == [fn |-> "", raised |-> FALSE, val |-> <<>>, exc |-> <<>>]

Called(fn, r) == [fn |-> fn, raised |-> r.raised, val |-> r.val, exc |-> r.exc]

\* The class and module state of a fresh process (lines 16, 37, 38)
InitProcess ==
    /\ _configured = FALSE
    /\ _configuration_error = None
    /\ configure_calls = 0
    /\ configure_returns = 0
    /\ plugins = <<>>

(***************************************************************************)
(* SpecExtract: _extract_violations called on a report and a module name.  *)
(***************************************************************************)
InitExtract ==
    /\ InitProcess
    /\ IMPORT_LINTER_AVAILABLE = TRUE
    /\ sys_path = <<>>
    /\ report \in ReportsOver(CoreViolations) \cup SingleReports
    /\ arg_module \in ModuleNames
    /\ ret = NoRet

CallExtract ==
    /\ ret = NoRet
    /\ ret' = Called("_extract_violations", _extract_violations(report, arg_module))
    /\ UNCHANGED <<IMPORT_LINTER_AVAILABLE, _configured, _configuration_error,
                   configure_calls, configure_returns, sys_path, plugins, report, arg_module>>

NextExtract == CallExtract

SpecExtract == InitExtract /\ [][NextExtract]_vars

(***************************************************************************)
(* os.path (posixpath) on strings, for absolute normalised paths.          *)
(***************************************************************************)
Sep == "/"

\* The positions of c in s
Positions(s, c) == {i \in 1..Len(s) : s[i] = c}

\* The greatest element of a set of positions, 0 when it is empty: s.rfind + 1
Rightmost(at) == IF at = {} THEN 0 ELSE CHOOSE i \in at : \A j \in at : j <= i

\* s.rfind(c) + 1 as a position of s: the position after the last c, 1 when there is none
AfterLast(s, c) == Rightmost(Positions(s, c)) + 1

RECURSIVE Split(_, _)

\* s.split(c), with at the positions of c in s
SplitAt(s, c, at) ==
    IF at = {} THEN <<s>>
    ELSE <<SubSeq(s, 1, Leftmost(at) - 1)>> \o Split(SubSeq(s, Leftmost(at) + 1, Len(s)), c)

\* s.split(c)
Split(s, c) == SplitAt(s, c, Positions(s, c))

RECURSIVE Join(_, _)
\* c.join(parts)
Join(parts, c) ==
    IF parts = <<>> THEN <<>>
    ELSE IF Len(parts) = 1 THEN parts[1]
    ELSE parts[1] \o <<c>> \o Join(Tail(parts), c)

RECURSIVE NonEmpty(_)
\* [x for x in parts if x]
NonEmpty(parts) ==
    IF parts = <<>> THEN <<>>
    ELSE IF Head(parts) = <<>> THEN NonEmpty(Tail(parts))
    ELSE <<Head(parts)>> \o NonEmpty(Tail(parts))

RECURSIVE CommonPrefixLen(_, _)
\* len(commonprefix([a, b]))
CommonPrefixLen(a, b) ==
    IF a # <<>> /\ b # <<>> /\ Head(a) = Head(b) THEN 1 + CommonPrefixLen(Tail(a), Tail(b)) ELSE 0

\* rel_list of relpath: a ".." for each component of start past the i common
\* ones, then the components of path past them
RelList(start_list, path_list, i) ==
    [k \in 1..(Len(start_list) - i) |-> <<".", ".">>] \o SubSeq(path_list, i + 1, Len(path_list))

\* join(*rel_list), or curdir for the empty list
JoinOrCurdir(rel_list) == IF rel_list = <<>> THEN <<".">> ELSE Join(rel_list, Sep)

\* relpath on the component lists of start and path
RelOf(start_list, path_list) == JoinOrCurdir(RelList(start_list, path_list, CommonPrefixLen(start_list, path_list)))

\* os.path.relpath(path, start)
relpath(path, start) == RelOf(NonEmpty(Split(start, Sep)), NonEmpty(Split(path, Sep)))

RECURSIVE RStripSep(_)
\* head.rstrip(sep)
RStripSep(s) == IF s # <<>> /\ s[Len(s)] = Sep THEN RStripSep(SubSeq(s, 1, Len(s) - 1)) ELSE s

\* dirname: the head is stripped of trailing separators unless it is nothing else
StripHead(head) == IF head # <<>> /\ \E k \in 1..Len(head) : head[k] # Sep THEN RStripSep(head) ELSE head

\* os.path.dirname(p)
dirname(p) == StripHead(SubSeq(p, 1, AfterLast(p, Sep) - 1))

\* os.path.basename(p)
basename(p) == SubSeq(p, AfterLast(p, Sep), Len(p))

\* splitext(p)[0] with dotIndex the position of the last dot of p, 0 for none
SplitAtDot(p, dotIndex) ==
    IF dotIndex >= 1 /\ \E k \in 1..(dotIndex - 1) : p[k] # "."
    THEN SubSeq(p, 1, dotIndex - 1)
    ELSE p

\* os.path.splitext(p)[0] of a name without separators: the name up to its
\* last dot, unless only dots come before that dot
splitext0(p) == SplitAtDot(p, AfterLast(p, ".") - 1)

DotPy == <<".", "p", "y">>
InitPy == <<"_", "_", "i", "n", "i", "t", "_", "_", ".", "p", "y">>

RECURSIVE ModuleParts(_)
\* The loop of lines 159-161: the parts that are non-empty and do not start with "."
ModuleParts(path_parts) ==
    IF path_parts = <<>> THEN <<>>
    ELSE IF Head(path_parts) # <<>> /\ ~StartsWith(Head(path_parts), <<".">>)
    THEN <<Head(path_parts)>> \o ModuleParts(Tail(path_parts))
    ELSE ModuleParts(Tail(path_parts))

\* A mutant of IsPackageInit: __init__.py is treated like any module file.
IsPackageInitNever(name) == FALSE

\* basename == "__init__.py" (line 165)
IsPackageInit(name) == name = InitPy

\* rel_path.startswith("..") (line 153)
OutsideRoot(rel_path) == StartsWith(rel_path, <<".", ".">>)

(***************************************************************************)
(* ImportLinterPlugin._get_module_name: Some(module name) or None          *)
(***************************************************************************)
\* Lines 163-168: the base name is added unless it is __init__.py
WithBasename(module_parts, name) ==
    Join(IF IsPackageInit(name) THEN module_parts ELSE module_parts \o <<splitext0(name)>>, ".")

\* Lines 152-168, with rel_path the path relative to the project root
ModuleNameOf(filename, rel_path) ==
    IF OutsideRoot(rel_path) THEN None
    ELSE Some(WithBasename(ModuleParts(Split(dirname(rel_path), Sep)), basename(filename)))

_get_module_name(filename, project_root) ==
    IF ~EndsWith(filename, DotPy) THEN None
    ELSE ModuleNameOf(filename, relpath(filename, project_root))

(***************************************************************************)
(* The plugin instance: __init__ (lines 55-57) and the state of the        *)
(* generator its run() returns.                                            *)
(***************************************************************************)
NewPlugin(filename, project_root_dir) ==
    [filename |-> filename, project_root_dir |-> project_root_dir,
     pc |-> "new",             \* where the generator of run() stands
     original_path |-> <<>>,   \* run's local original_path
     report |-> <<>>,          \* run's local report
     module_name |-> None,     \* run's local module_name
     pending |-> <<>>,         \* the diagnostics the loops of lines 117-124 have still to yield
     out |-> <<>>,             \* history: the diagnostics yielded so far
     raised |-> None,          \* history: str() of the exception the try block raised
     entered_with |-> <<>>,    \* history: sys.path when the try block was entered
     overlapped |-> FALSE]     \* history: another run() was inside its try block meanwhile

(***************************************************************************)
(* The paths the model draws: directories of up to MaxDepth components     *)
(* under "/", among them hidden ones, and four base names.                 *)
(***************************************************************************)
MaxDepth == 3

DirNames == {<<"r">>, <<"p">>, <<".", "h">>, <<".", ".", "x">>}
BaseNames == {<<"m">> \o DotPy, InitPy, <<"m", ".", "t", "x", "t">>, DotPy}

AbsPath(parts) == <<Sep>> \o Join(parts, Sep)

Filenames == {AbsPath(ds \o <<b>>) : ds \in SeqsUpTo(DirNames, MaxDepth), b \in BaseNames}
ProjectRoots == {AbsPath(<<<<"r">>>>), AbsPath(<<<<"r">>, <<"p">>>>), AbsPath(<<<<"p">>>>)}

(***************************************************************************)
(* SpecModule: _get_module_name called on a plugin's file and root.        *)
(***************************************************************************)
InitModule ==
    /\ _configured = FALSE
    /\ _configuration_error = None
    /\ configure_calls = 0
    /\ configure_returns = 0
    /\ IMPORT_LINTER_AVAILABLE = TRUE
    /\ sys_path = <<>>
    /\ report = <<>>
    /\ arg_module = <<>>
    /\ ret = NoRet
    /\ \E f \in Filenames, r \in ProjectRoots : plugins = <<NewPlugin(f, r)>>

CallGetModuleName ==
    /\ ret = NoRet
    /\ ret' = Called("_get_module_name", Return(_get_module_name(plugins[1].filename, plugins[1].project_root_dir)))
    /\ UNCHANGED <<IMPORT_LINTER_AVAILABLE, _configured, _configuration_error,
                   configure_calls, configure_returns, sys_path, plugins, report, arg_module>>

NextModule == CallGetModuleName

SpecModule == InitModule /\ [][NextModule]_vars

(***************************************************************************)
(* The plugin's life in a flake8 process: constructions and runs.          *)
(***************************************************************************)
MaxPlugins == 2

PluginType == "ImportLinterPlugin"

\* str(e) of the exceptions the collaborators raise: Exception() and Exception("boom")
ExcMessages == {<<>>, <<"boom">>}

\* The calls of the try block that may raise: read_user_options (line 102),
\* _register_contract_types (line 103), create_report (line 106) and
\* os.path.relpath in _get_module_name (line 150; ntpath raises ValueError
\* for paths on different drives).
Faults == {"read_user_options", "_register_contract_types", "create_report", "_get_module_name"}

\* A mutant of NeedsConfigure: every construction configures import-linter.
NeedsConfigureAlways == TRUE

\* if not ImportLinterPlugin._configured (line 65)
NeedsConfigure == ~_configured

\* setup_importlinter (lines 63-71); outcome: None when importlinter_configure
\* returns, Some(str(e)) when it raises e.
setup_importlinter(outcome) ==
    IF NeedsConfigure
    THEN /\ configure_calls' = configure_calls + 1
         /\ IF outcome = None
            THEN /\ _configured' = TRUE
                 /\ configure_returns' = configure_returns + 1
                 /\ UNCHANGED _configuration_error
            ELSE /\ _configuration_error' = outcome
                 /\ UNCHANGED <<_configured, configure_returns>>
    ELSE UNCHANGED <<_configured, _configuration_error, configure_calls, configure_returns>>

\* ImportLinterPlugin.__init__ (lines 40-61)
Construct(filename, project_root_dir, outcome, limit) ==
    /\ Len(plugins) < limit
    /\ plugins' = Append(plugins, NewPlugin(filename, project_root_dir))
    /\ IF ~IMPORT_LINTER_AVAILABLE
       THEN UNCHANGED <<_configured, _configuration_error, configure_calls, configure_returns>>
       ELSE setup_importlinter(outcome)
    /\ UNCHANGED <<IMPORT_LINTER_AVAILABLE, sys_path, report, arg_module, ret>>

\* The diagnostic of lines 88-93
ConfigurationDiagnostic(error) == <<1, 0, <<"IMP000 Error configuring import-linter: ">> \o error, PluginType>>

\* A mutant of ErrorDiagnostic: the error is reported with the code of a violation.
ErrorDiagnosticAsViolation(error_str) == <<1, 0, <<"IMP001 Error running import-linter: ">> \o error_str, PluginType>>

\* The diagnostic of line 130
ErrorDiagnostic(error_str) == <<1, 0, <<"IMP000 Error running import-linter: ">> \o error_str, PluginType>>

\* The diagnostic of lines 119-124
ViolationDiagnostic(contract_name, pair) == <<pair[1], 0, <<"IMP001 ">> \o contract_name \o <<": ">> \o pair[2], PluginType>>

RECURSIVE DiagnosticsReversed(_)
\* A mutant of Diagnostics: the contracts are walked last to first.
DiagnosticsReversed(entries) ==
    IF entries = <<>> THEN <<>>
    ELSE DiagnosticsReversed(Tail(entries))
         \o [k \in 1..Len(Head(entries)[2]) |-> ViolationDiagnostic(Head(entries)[1], Head(entries)[2][k])]

RECURSIVE Diagnostics(_)
\* What the loops of lines 117-124 yield for the list _extract_violations returned
Diagnostics(entries) ==
    IF entries = <<>> THEN <<>>
    ELSE [k \in 1..Len(Head(entries)[2]) |-> ViolationDiagnostic(Head(entries)[1], Head(entries)[2][k])]
         \o Diagnostics(Tail(entries))

\* The generator is suspended inside the try block, at the yield of the loops
\* (line 119) or of the except clause (line 130).
InTry(plugin) == plugin.pc \in {"yielding", "handling"}

\* A mutant of Restored: the finally clause leaves sys.path as it is.
RestoredNot(current, original_path) == current

\* finally: sys.path = original_path (lines 132-134)
Restored(current, original_path) == original_path

\* The plugins with plugin i replaced by q; the others learn that a run
\* entered its try block while they were inside theirs.
WithPlugin(i, q, entering) ==
    [k \in 1..Len(plugins) |->
        IF k = i THEN q
        ELSE IF entering /\ InTry(plugins[k]) THEN [plugins[k] EXCEPT !.overlapped = TRUE]
        ELSE plugins[k]]

\* How the try block leaves the generator: pc, the diagnostic it yields (in
\* a list), those still to yield, module_name, and the exception it caught.
TryOutcome(pc, yielded, pending, module_name, raised) ==
    [pc |-> pc, yielded |-> yielded, pending |-> pending, module_name |-> module_name, raised |-> raised]

\* except Exception as e (lines 126-130): the error diagnostic is yielded
Handled(module_name, error_str) ==
    TryOutcome("handling", <<ErrorDiagnostic(error_str)>>, <<>>, module_name, Some(error_str))

\* The loops of lines 117-124 over the diagnostics, up to the first yield
LoopOutcome(module_name, diagnostics) ==
    IF diagnostics = <<>>
    THEN TryOutcome("done", <<>>, <<>>, module_name, None)
    ELSE TryOutcome("yielding", <<Head(diagnostics)>>, Tail(diagnostics), module_name, None)

\* Line 117: the call of _extract_violations returned or raised
ExtractOutcome(module_name, extracted) ==
    IF extracted.raised
    THEN Handled(module_name, extracted.exc)
    ELSE LoopOutcome(module_name, Diagnostics(extracted.val))

\* Lines 112-117: if not module_name: return
ModuleOutcome(module_name, rep) ==
    IF module_name = None \/ module_name = Some(<<>>)
    THEN TryOutcome("done", <<>>, <<>>, module_name, None)
    ELSE ExtractOutcome(module_name, _extract_violations(rep, Val(module_name)))

\* Lines 101-124: fault names the call that raises error, "" for none, and
\* rep is the report create_report returns.
CallsOutcome(filename, project_root_dir, fault, error, rep) ==
    IF fault # ""
    THEN Handled(None, error)
    ELSE ModuleOutcome(_get_module_name(filename, project_root_dir), rep)

\* Lines 98-99: the project root is put first unless sys.path holds it
Inserted(path, project_root_dir) ==
    IF \E k \in 1..Len(path) : path[k] = project_root_dir THEN path ELSE <<project_root_dir>> \o path

\* The plugin after the try block was entered with sys.path = path and left as o
AfterTry(self, o, path, rep, others_in_try) ==
    [self EXCEPT !.pc = o.pc,
                 !.original_path = path,
                 !.report = rep,
                 !.module_name = o.module_name,
                 !.pending = o.pending,
                 !.out = self.out \o o.yielded,
                 !.raised = o.raised,
                 !.entered_with = path,
                 !.overlapped = others_in_try]

\* The plugins and sys.path when plugin i leaves the try block as o
LeaveTry(i, o, rep) ==
    /\ plugins' = WithPlugin(i, AfterTry(plugins[i], o, sys_path, rep,
                                         \E k \in 1..Len(plugins) : k # i /\ InTry(plugins[k])),
                             o.pc # "done")
    /\ sys_path' = IF o.pc = "done"
                   THEN Restored(Inserted(sys_path, plugins[i].project_root_dir), sys_path)
                   ELSE Inserted(sys_path, plugins[i].project_root_dir)

\* The try block up to its first yield or its end (lines 96-134).
TryBlock(i, fault, error, rep) ==
    LeaveTry(i, CallsOutcome(plugins[i].filename, plugins[i].project_root_dir, fault, error, rep), rep)

\* The first next() on the generator of run(): lines 80-94, then the try block.
RunStart(i, fault, error, rep) ==
    /\ i \in 1..Len(plugins)
    /\ plugins[i].pc = "new"
    /\ IF ~IMPORT_LINTER_AVAILABLE \/ ~EndsWith(plugins[i].filename, DotPy)
       THEN /\ fault = "" /\ rep = <<>>
            /\ plugins' = [plugins EXCEPT ![i].pc = "done"]
            /\ UNCHANGED sys_path
       ELSE IF _configuration_error # None /\ Val(_configuration_error) # <<>>
       THEN /\ fault = "" /\ rep = <<>>
            /\ plugins' = [plugins EXCEPT ![i].pc = "config_error",
                                          ![i].out = Append(@, ConfigurationDiagnostic(Val(_configuration_error)))]
            /\ UNCHANGED sys_path
       ELSE TryBlock(i, fault, error, rep)
    /\ UNCHANGED <<IMPORT_LINTER_AVAILABLE, _configured, _configuration_error,
                   configure_calls, configure_returns, report, arg_module, ret>>

\* A later next() on the generator: the following diagnostic, or the end of
\* the loops and the finally clause.
RunResume(i) ==
    /\ i \in 1..Len(plugins)
    /\ plugins[i].pc \in {"config_error", "yielding", "handling"}
    /\ IF plugins[i].pc = "config_error"
       THEN /\ plugins' = [plugins EXCEPT ![i].pc = "done"]
            /\ UNCHANGED sys_path
       ELSE IF plugins[i].pc = "yielding" /\ plugins[i].pending # <<>>
       THEN /\ plugins' = [plugins EXCEPT ![i].out = Append(@, Head(plugins[i].pending)),
                                          ![i].pending = Tail(@)]
            /\ UNCHANGED sys_path
       ELSE /\ plugins' = [plugins EXCEPT ![i].pc = "done"]
            /\ sys_path' = Restored(sys_path, plugins[i].original_path)
    /\ UNCHANGED <<IMPORT_LINTER_AVAILABLE, _configured, _configuration_error,
                   configure_calls, configure_returns, report, arg_module, ret>>

(***************************************************************************)
(* The files, roots, sys.path values and reports of the processes.         *)
(***************************************************************************)
RootR == AbsPath(<<<<"r">>>>)
RootP == AbsPath(<<<<"p">>>>)
LibPath == AbsPath(<<<<"l", "i", "b">>>>)

FileOf(root, parts) == root \o <<Sep>> \o Join(parts, Sep)

\* sys.path before the first run: without a project root, or with one
InitialPaths == {<<LibPath>>, <<LibPath, RootR>>}

\* An importer object without the attribute imported: formatting the message
\* (line 208) raises AttributeError.
NoImported == Violation(Some(ModA), None, None, None, Some(1), None, OpaqueStr)

\* The shapes of the reports of SpecRun: forbidden imports by "a" and by "b",
\* a string-only object, and the object that makes the extraction raise.
RunViolations ==
    {MockViolation(ModA, ModCdotD, Some(1)),
     MockViolation(ModA, ModCdotD, Some(MaxLine)),
     MockViolation(ModB, ModCdotD, Some(1)),
     Violation(None, None, None, None, None, None, MockStr(ModA, ModCdotD, Some(MaxLine))),
     NoImported}

RunReports == ReportsOver(RunViolations)

\* The files of SpecRun: modules "a" and "b" of the project, a file that is
\* not Python, and a file outside the project root.
RunFilenames ==
    {FileOf(RootR, <<<<"a">> \o DotPy>>), FileOf(RootR, <<<<"b">> \o DotPy>>),
     FileOf(RootR, <<<<"m", ".", "t", "x", "t">>>>), FileOf(RootP, <<<<"a">> \o DotPy>>)}

\* The report of test_extract_violations, with the lines of the model
TestReport ==
    ReportOf(<<MockContractCheck(FALSE, <<MockViolation(ModA, ModCdotD, Some(MaxLine)),
                                          MockViolation(ModB, ModCdotD, Some(1))>>),
               MockContractCheck(TRUE, <<>>)>>)

\* The reports of Spec: no contract, and the report of the test
SampleReports == {<<>>, TestReport}

\* The plugins of Spec, as <<filename, project_root_dir>>: module "a" under
\* either root, a file outside its root, and a package's __init__.py directly
\* under the root, whose module name is empty
SamplePlugins ==
    {<<FileOf(RootR, <<<<"a">> \o DotPy>>), RootR>>,
     <<FileOf(RootP, <<<<"a">> \o DotPy>>), RootP>>,
     <<FileOf(RootP, <<<<"a">> \o DotPy>>), RootR>>,
     <<FileOf(RootR, <<InitPy>>), RootR>>}

\* flake8 calls run() on a plugin it has constructed, once
Runnable(i) == i \in 1..Len(plugins) /\ plugins[i].pc = "new"

\* What the environment decides in one call of run(): the call that raises,
\* its message, and the report create_report returns.
RunOutcomes(reports, errors) ==
    {<<"", <<>>, rep>> : rep \in reports} \cup {<<f, e, <<>>>> : f \in Faults, e \in errors}

\* What importlinter_configure does: returns (None) or raises e (Some(str(e)))
ConfigureOutcomes == {None} \cup {Some(e) : e \in ExcMessages}

InitRun ==
    /\ InitProcess
    /\ IMPORT_LINTER_AVAILABLE \in BOOLEAN
    /\ sys_path \in InitialPaths
    /\ report = <<>>
    /\ arg_module = <<>>
    /\ ret = NoRet

(***************************************************************************)
(* Spec: up to MaxPlugins plugins whose runs interleave at their yields.   *)
(* A call that raises inside run() does so with the message "boom".        *)
(***************************************************************************)
Init == InitRun

Next ==
    \/ \E p \in SamplePlugins, o \in ConfigureOutcomes : Construct(p[1], p[2], o, MaxPlugins)
    \/ \E i \in 1..MaxPlugins : Runnable(i) /\ \E x \in RunOutcomes(SampleReports, {<<"boom">>}) : RunStart(i, x[1], x[2], x[3])
    \/ \E i \in 1..MaxPlugins : RunResume(i)

Spec == Init /\ [][Next]_vars

(***************************************************************************)
(* SpecRun: one plugin, run on any of the reports of RunReports.           *)
(***************************************************************************)
NextRun ==
    \/ \E f \in RunFilenames, o \in ConfigureOutcomes : Construct(f, RootR, o, 1)
    \/ Runnable(1) /\ \E x \in RunOutcomes(RunReports, ExcMessages) : RunStart(1, x[1], x[2], x[3])
    \/ RunResume(1)

SpecRun == InitRun /\ [][NextRun]_vars

(***************************************************************************)
(* Claims about _get_module_name, checked under SpecModule.                *)
(***************************************************************************)
FileParts == NonEmpty(Split(plugins[1].filename, Sep))
RootParts == NonEmpty(Split(plugins[1].project_root_dir, Sep))

\* The file lies under the project root.
UnderRoot == Len(RootParts) < Len(FileParts) /\ SubSeq(FileParts, 1, Len(RootParts)) = RootParts

\* root/p1/.../pn/base: the directory components p1..pn and the base name
DirParts == SubSeq(FileParts, Len(RootParts) + 1, Len(FileParts) - 1)
BasePart == FileParts[Len(FileParts)]

IsPyFile == EndsWith(plugins[1].filename, DotPy)

WithoutPy(name) == SubSeq(name, 1, Len(name) - 3)

RECURSIVE Visible(_)
\* The components that do not begin with "."
Visible(parts) ==
    IF parts = <<>> THEN <<>>
    ELSE IF Head(parts)[1] = "." THEN Visible(Tail(parts))
    ELSE <<Head(parts)>> \o Visible(Tail(parts))

Extracted == ret.fn = "_extract_violations" /\ ~ret.raised

ContractAt(i) == report[i][1]
CheckAt(i) == report[i][2]

\* The pairs of the entry the result holds for contract i (none: <<>>)
EntryPairs(i) ==
    LET at == {k \in 1..Len(ret.val) : ret.val[k][1] = ContractAt(i).name}
    IN  IF at = {} THEN <<>> ELSE ret.val[CHOOSE k \in at : TRUE][2]

\* The violation concerns the module: by its importer attribute, by its
\* higher_layer / lower_layer attributes, or by its string form.
ByImporter(v, m) == v.importer = Some(m)
ByLayers(v, m) == v.higher_layer # None /\ v.lower_layer # None /\ StartsWith(m, Val(v.higher_layer))
ByString(v, m) == StartsWith(v.str, m \o <<" ", "-", ">">>)
Concerns(v, m) == ByImporter(v, m) \/ ByLayers(v, m) \/ ByString(v, m)

\* No line number can be determined for the violation.
NoLineNumber(v) ==
    /\ v.line_number = None
    /\ \/ v.line_numbers = None
       \/ Val(v.line_numbers) = <<>>
       \/ Val(v.line_numbers)[1] = None
    /\ SearchLine(v.str) = None

Concerning(i) == {j \in 1..Len(CheckAt(i).violations) : Concerns(CheckAt(i).violations[j], arg_module)}

\* C1 (as claimed): every violation of a broken contract that concerns the
\* module yields a diagnostic, and one whose line number cannot be determined
\* yields it at line 1: a broken contract's entry holds at least one pair per
\* concerning violation and at least one pair at line 1 per concerning
\* violation without a line number.
C1_NeverSuppressed ==
    Extracted =>
        \A i \in 1..Len(report) :
            ~CheckAt(i).kept =>
                /\ Len(EntryPairs(i)) >= Cardinality(Concerning(i))
                /\ Cardinality({k \in 1..Len(EntryPairs(i)) : EntryPairs(i)[k][1] = 1})
                       >= Cardinality({j \in Concerning(i) : NoLineNumber(CheckAt(i).violations[j])})

\* C5: the result has an entry for a contract only if its check is broken and
\* one of its violations concerns the module; a kept contract and a broken
\* contract whose violations all have another importer have no entry; a report
\* without failures gives the empty result.
C5_NoFalsePositives ==
    Extracted =>
        /\ \A k \in 1..Len(ret.val) :
               \E i \in 1..Len(report) :
                   /\ ContractAt(i).name = ret.val[k][1]
                   /\ ~CheckAt(i).kept
                   /\ Concerning(i) # {}
        /\ \A i \in 1..Len(report) :
               \/ CheckAt(i).kept
               \/ \A j \in 1..Len(CheckAt(i).violations) :
                      /\ CheckAt(i).violations[j].importer # None
                      /\ CheckAt(i).violations[j].importer # Some(arg_module)
               => EntryPairs(i) = <<>>
        /\ (\A i \in 1..Len(report) : CheckAt(i).kept) => ret.val = <<>>

\* C5 witness: a kept contract with a violation of the module beside a broken
\* one with a violation of the module: one entry, the broken contract's.
C5_Witness ==
    /\ Extracted
    /\ Len(report) = 2
    /\ ~CheckAt(1).kept /\ Concerning(1) # {}
    /\ CheckAt(2).kept /\ Concerning(2) # {}
    /\ Len(ret.val) = 1
    /\ ret.val[1][1] = ContractAt(1).name

\* The violation is a forbidden import by module m with a known line.
ForbiddenEdge(v, m) ==
    /\ v.importer = Some(m)
    /\ v.imported # None
    /\ v.line_number # None

\* C6: a broken contract whose violations are forbidden imports by the module,
\* each with its imported module X and line L, gets exactly one pair
\* <<L, "Forbidden import of X">> per violation, in order; and no contract gets
\* more pairs than it has violations concerning the module.
C6_ExactlyOnce ==
    Extracted =>
        \A i \in 1..Len(report) :
            ~CheckAt(i).kept =>
                LET vs == CheckAt(i).violations
                IN  /\ (\A j \in 1..Len(vs) : ForbiddenEdge(vs[j], arg_module)) =>
                           EntryPairs(i) = [j \in 1..Len(vs) |->
                               <<Val(vs[j].line_number), <<"Forbidden import of ">> \o Val(vs[j].imported)>>]
                    /\ Len(EntryPairs(i)) <= Cardinality(Concerning(i))

\* C6 witness: a forbidden import of the module whose string form also carries
\* "(l.N)", so that the fallback would match it, reported once.
C6_Witness ==
    /\ Extracted
    /\ \E i \in 1..Len(report) :
           /\ ~CheckAt(i).kept
           /\ Len(CheckAt(i).violations) = 1
           /\ ForbiddenEdge(CheckAt(i).violations[1], arg_module)
           /\ ByString(CheckAt(i).violations[1], arg_module)
           /\ SearchLine(CheckAt(i).violations[1].str) # None
           /\ Len(EntryPairs(i)) = 1

\* Module m lies in layer l: it is l or a descendant of l.
InLayer(m, l) == m = l \/ StartsWith(m, l \o <<".">>)

\* C7 (as claimed): for a layers violation whose lower layer holds the module,
\* the broken contract's entry has a pair that carries the violation's line
\* number and whose message names both layers.
C7_LowerLayerImporter ==
    Extracted =>
        \A i \in 1..Len(report) :
            ~CheckAt(i).kept =>
                \A j \in 1..Len(CheckAt(i).violations) :
                    LET v == CheckAt(i).violations[j]
                    IN  (/\ v.higher_layer # None /\ v.lower_layer # None
                         /\ InLayer(arg_module, Val(v.lower_layer))) =>
                            \E k \in 1..Len(EntryPairs(i)) :
                                /\ v.line_number # None => EntryPairs(i)[k][1] = Val(v.line_number)
                                /\ Contains(EntryPairs(i)[k][2], Val(v.higher_layer))
                                /\ Contains(EntryPairs(i)[k][2], Val(v.lower_layer))

(***************************************************************************)
(* Claims about run(), checked under SpecRun (one plugin).                 *)
(***************************************************************************)
\* run() entered its try block
EnteredTry(plugin) == plugin.entered_with # <<>>

\* run() went past "if not module_name: return" (line 113)
HasModule(plugin) == plugin.module_name # None /\ plugin.module_name # Some(<<>>)

\* The diagnostic yielded at position k is the one of the pair of contract name
DiagnosticOf(name, pair) == <<pair[1], 0, <<"IMP001 ">> \o name \o <<": ">> \o pair[2], PluginType>>

\* The contract's diagnostics for the module are all among those yielded
AllYielded(out, name, pairs) ==
    \A k \in 1..Len(pairs) : \E n \in 1..Len(out) : out[n] = DiagnosticOf(name, pairs[k])

\* Contract i of the report: processing its check does not raise and finds
\* violations of the module, and the run yielded all of them
IsolatedAt(plugin, i, cv) ==
    (~cv.raised /\ cv.val # <<>>) => AllYielded(plugin.out, plugin.report[i][1].name, cv.val)

\* C2 (as claimed): when run() has ended, the diagnostics of every broken
\* contract whose own check is processed without an exception have been
\* yielded, whatever the processing of the other contracts of the report did.
C2_IsolatedPerContract ==
    \A n \in 1..Len(plugins) :
        (plugins[n].pc = "done" /\ EnteredTry(plugins[n]) /\ HasModule(plugins[n])) =>
            \A i \in 1..Len(plugins[n].report) :
                IsolatedAt(plugins[n], i, CheckViolations(plugins[n].report[i][2], Val(plugins[n].module_name)))

\* The run of the plugin has called _extract_violations and the call raised
ExtractionRaised(plugin) ==
    /\ EnteredTry(plugin)
    /\ HasModule(plugin)
    /\ _extract_violations(plugin.report, Val(plugin.module_name)).raised

\* The run caught an exception: it has yielded the error diagnostic and
\* nothing else, and has nothing left to yield
OnlyTheError(plugin) ==
    /\ plugin.raised # None
    /\ plugin.out = <<<<1, 0, <<"IMP000 Error running import-linter: ">> \o Val(plugin.raised), PluginType>>>>
    /\ plugin.pending = <<>>
    /\ plugin.pc \in {"handling", "done"}

\* C3: past the guards of lines 80-94, an exception raised by
\* read_user_options, _register_contract_types, create_report,
\* _get_module_name or _extract_violations makes run() yield exactly one
\* diagnostic, (1, 0, "IMP000 Error running import-linter: <str(e)>", type),
\* with no IMP001 diagnostic before or after it; the next step of the
\* generator ends it, and the exception is not propagated.
C3_OneErrorDiagnostic ==
    [][\A n \in 1..Len(plugins') :
           /\ (plugins'[n].raised # None \/ ExtractionRaised(plugins'[n])) => OnlyTheError(plugins'[n])
           /\ (n <= Len(plugins) /\ plugins[n].pc = "handling" /\ plugins'[n] # plugins[n]) =>
                  /\ plugins'[n].pc = "done"
                  /\ plugins'[n].out = plugins[n].out]_vars

\* C3 witness: the extraction raised on the second contract after the first
\* one had a violation of the module; the run ended with the one diagnostic.
C3_Witness ==
    /\ Len(plugins) = 1
    /\ plugins[1].pc = "done"
    /\ ExtractionRaised(plugins[1])
    /\ Len(plugins[1].report) = 2
    /\ CheckViolations(plugins[1].report[1][2], Val(plugins[1].module_name)) \notin {Return(<<>>), Raise(AttributeErrorImported)}
    /\ Len(plugins[1].out) = 1
    /\ plugins[1].out[1][1] = 1

RECURSIVE PairsBefore(_, _)
\* The number of pairs the entries before entry i hold
PairsBefore(entries, i) == IF i = 1 THEN 0 ELSE PairsBefore(entries, i - 1) + Len(entries[i - 1][2])

\* The diagnostics yielded so far are, position by position, those of the
\* pairs of the entries in order; all of them when the run has ended
YieldedInOrder(plugin, entries) ==
    /\ Len(plugin.out) <= PairsBefore(entries, Len(entries) + 1)
    /\ plugin.pc = "done" => Len(plugin.out) = PairsBefore(entries, Len(entries) + 1)
    /\ \A i \in 1..Len(entries) : \A j \in 1..Len(entries[i][2]) :
           PairsBefore(entries, i) + j <= Len(plugin.out) =>
               plugin.out[PairsBefore(entries, i) + j] = DiagnosticOf(entries[i][1], entries[i][2][j])

\* The entries follow the contracts of the report, and the pairs of an entry
\* the violations of its check
EntriesInOrder(rep, module_name, entries) ==
    /\ \A a, b \in 1..Len(entries) :
           a < b => \E i, k \in 1..Len(rep) :
                        i < k /\ rep[i][1].name = entries[a][1] /\ rep[k][1].name = entries[b][1]
    /\ \A a \in 1..Len(entries) : \E i \in 1..Len(rep) :
           /\ rep[i][1].name = entries[a][1]
           /\ \A x, y \in 1..Len(entries[a][2]) :
                  x < y => \E j, l \in 1..Len(rep[i][2].violations) :
                               /\ j < l
                               /\ ViolationPairs(rep[i][2].violations[j], module_name).pairs = <<entries[a][2][x]>>
                               /\ ViolationPairs(rep[i][2].violations[l], module_name).pairs = <<entries[a][2][y]>>

\* The run is in the loops of lines 117-124 or left them without an exception
InLoops(plugin) ==
    /\ plugin.pc \in {"yielding", "done"}
    /\ EnteredTry(plugin)
    /\ HasModule(plugin)
    /\ plugin.raised = None

\* The run's diagnostics and the entries of the extraction are both in order
InOrder(plugin, entries) ==
    /\ YieldedInOrder(plugin, entries)
    /\ EntriesInOrder(plugin.report, Val(plugin.module_name), entries)

\* C4: the diagnostics run() yields are the list _extract_violations returns,
\* flattened in order, one (line, 0, "IMP001 <contract name>: <message>",
\* type) per pair; the contracts are in the order of the report and the
\* violations of a contract in the order of its check's violations.
C4_ReportOrder ==
    \A n \in 1..Len(plugins) :
        InLoops(plugins[n]) =>
            InOrder(plugins[n], _extract_violations(plugins[n].report, Val(plugins[n].module_name)).val)

\* C4 witness: two broken contracts, the first with the later line; the run
\* ended after yielding the first contract's diagnostic, then the second's.
C4_Witness ==
    /\ Len(plugins) = 1
    /\ InLoops(plugins[1])
    /\ plugins[1].pc = "done"
    /\ Len(plugins[1].report) = 2
    /\ Len(plugins[1].out) = 2
    /\ plugins[1].out[1][1] = MaxLine
    /\ plugins[1].out[2][1] = 1
    /\ plugins[1].out[1][3] = <<"IMP001 ">> \o ContractName(1) \o <<": ">> \o ForbiddenMessage(ModCdotD)
    /\ plugins[1].out[2][3] = <<"IMP001 ">> \o ContractName(2) \o <<": ">> \o ForbiddenMessage(ModCdotD)

(***************************************************************************)
(* Claims about the process, checked under Spec.                           *)
(***************************************************************************)
\* C9: importlinter_configure is invoked by a construction only while
\* _configured is False; _configured becomes True only by an invocation that
\* returned, and never goes back to False; so at most one invocation ever
\* succeeds and none is made after a success.
C9_ConfiguredOnce ==
    [][/\ configure_calls' # configure_calls => (~_configured /\ Len(plugins') = Len(plugins) + 1)
       /\ _configured => (_configured' /\ configure_calls' = configure_calls)
       /\ (_configured' /\ ~_configured) =>
              (configure_calls' = configure_calls + 1 /\ configure_returns' = configure_returns + 1)
       /\ configure_returns' # configure_returns => (_configured' /\ ~_configured)
       /\ configure_returns' <= 1]_vars

\* C9 witness: a construction after the one that configured import-linter,
\* with a single invocation in all.
C9_Witness ==
    /\ _configured
    /\ Len(plugins) = MaxPlugins
    /\ configure_calls = 1
    /\ configure_returns = 1

\* C10: when a run() that entered its try block ends, and no other run() was
\* inside its try block meanwhile, sys.path is what it was when the run
\* entered the try block: same entries, same order.
C10_PathRestored ==
    [][\A n \in 1..Len(plugins) :
           (/\ plugins[n].pc # "done"
            /\ plugins'[n].pc = "done"
            /\ EnteredTry(plugins'[n])
            /\ ~plugins'[n].overlapped) => sys_path' = plugins'[n].entered_with]_vars

\* C10 witness: a run that put its project root first on sys.path and yielded
\* a diagnostic has ended, alone, and sys.path is as it found it.
C10_Witness ==
    \E n \in 1..Len(plugins) :
        /\ plugins[n].pc = "done"
        /\ EnteredTry(plugins[n])
        /\ ~plugins[n].overlapped
        /\ \A k \in 1..Len(plugins[n].entered_with) : plugins[n].entered_with[k] # plugins[n].project_root_dir
        /\ plugins[n].out # <<>>
        /\ \A k \in 1..Len(plugins) : plugins[k].pc \in {"new", "done"}
        /\ sys_path = plugins[n].entered_with

\* Of two runs, the one that entered its try block first: a run that enters
\* while another is inside finds sys.path no shorter than the other found it
FirstEntered(p, q) == IF Len(p.entered_with) <= Len(q.entered_with) THEN p ELSE q

\* C11 (as claimed): when the runs of two plugins with different project
\* roots have both entered their try blocks and both ended, however their
\* steps were interleaved, sys.path is what it was before either started,
\* and holds no project root that was not on it then.
C11_RestoredUnderInterleaving ==
    \A m, n \in 1..Len(plugins) :
        (/\ m # n
         /\ plugins[m].project_root_dir # plugins[n].project_root_dir
         /\ EnteredTry(plugins[m]) /\ EnteredTry(plugins[n])
         /\ \A k \in 1..Len(plugins) : plugins[k].pc \in {"new", "done"}) =>
            /\ sys_path = FirstEntered(plugins[m], plugins[n]).entered_with
            /\ sys_path \in InitialPaths

\* C12 (as claimed): whenever import-linter is configured no configuration
\* error is recorded, and so no run that starts while it is configured
\* yields the "IMP000 Error configuring import-linter" diagnostic.
C12_ErrorOnlyWhileUnconfigured ==
    [][/\ _configured' => _configuration_error' = None
       /\ \A n \in 1..Len(plugins) :
              (_configured /\ plugins[n].pc = "new") => plugins'[n].pc # "config_error"]_vars

(***************************************************************************)
(* A further claim about _extract_violations, checked under SpecExtract.   *)
(***************************************************************************)
\* The message is that of the layers branch (lines 219-222)
IsLayersMessage(message) == StartsWith(message, <<"Illegal import from higher layer ">>)

\* Contract i has a layers violation whose higher layer holds the module
HasLayerOf(i, m) ==
    \E j \in 1..Len(CheckAt(i).violations) :
        /\ CheckAt(i).violations[j].higher_layer # None
        /\ CheckAt(i).violations[j].lower_layer # None
        /\ InLayer(m, Val(CheckAt(i).violations[j].higher_layer))

\* C13 (as claimed): the "Illegal import from higher layer" diagnostic is
\* emitted for module M only for a layers violation whose higher_layer is M
\* or an ancestor of M in the dotted hierarchy; a module whose name merely
\* begins with the characters of higher_layer gets none.
C13_LayerByHierarchy ==
    Extracted =>
        \A i \in 1..Len(report) :
            (\E k \in 1..Len(EntryPairs(i)) : IsLayersMessage(EntryPairs(i)[k][2])) => HasLayerOf(i, arg_module)

====
